---- MODULE Spec2Model ----
(***************************************************************************)
(* Model of the twilight autoposter of Phosphor-gg/rust-sdk:               *)
(*   src/src/autoposter/mod.rs            SharedStats, Autoposter          *)
(*   src/src/autoposter/twilight_impl.rs  Twilight::handle / try_post      *)
(*                                                                         *)
(* One Twilight handler is shared by NumTasks tasks, each running one      *)
(* handle(event) call.  A task moves from one .await to the next in one    *)
(* step; the code between two awaits touches shared data only under the    *)
(* guards it holds, so it is one atomic step.  Time is in milliseconds.    *)
(* Option<T> is a sequence: << >> is None and <<x>> is Some(x); the holder  *)
(* of a lock is an Option too.                                             *)
(***************************************************************************)
EXTENDS Integers, FiniteSets, Sequences, TLC

\* ---------------------------------------------------------------- bounds
NumTasks == 2
MaxId == 2

\* mod.rs:126  assert!(interval.as_secs() >= 900, ...)
MinIntervalSecs == 900

Tasks == 1..NumTasks
Ids == 1..MaxId

None == << >>
Some(x) == <<x>>

\* The instants the clock takes: the start, 1 ms later, and 900 s later.
ClockValues == {0, 1, 900000}

\* The intervals handed to the constructor (milliseconds).
Intervals == {899999, 900000, 900001}

\* The counts a caller outside handle() writes.
ExternalCounts == {0, 1}

\* twilight_model Event, as far as handle() tells the variants apart.
NoEvent == [kind |-> "none", guilds |-> {}, id |-> 0]
Events ==
  {[kind |-> "ready", guilds |-> S, id |-> 0] : S \in SUBSET Ids}
    \cup {[kind |-> k, guilds |-> {}, id |-> i] : k \in {"add", "remove"}, i \in Ids}
    \cup {[kind |-> "other", guilds |-> {}, id |-> 0]}

VARIABLES
  autoposter,    \* "none" | "ok" | "panic": outcome of Autoposter::twilight
  interval,      \* the interval argument of the constructor
  min_interval,  \* Twilight.min_interval
  clock,         \* Instant::now()
  cache,         \* Twilight.cache: the HashSet<u64>
  cacheOwner,    \* holder of the cache Mutex: None or Some(task)
  stats,         \* SharedStats.stats: [server_count, shard_count]
  statsWriter,   \* holder of the RwLock write guard
  statsReaders,  \* holders of RwLock read guards
  last_post,     \* Twilight.last_post: Option<Instant>
  lastOwner,     \* holder of the last_post Mutex
  pc,            \* per task: the await a handle() call stands at
  ev,            \* per task: the event handled
  now,           \* per task: try_post's local `now`
  before,        \* per task: the cache as found when its lock was acquired
  tried,         \* per task: try_post was invoked
  posts,         \* number of client.post_stats calls started
  failures,      \* number of post_stats calls that returned Err
  extWrote       \* a caller outside handle() wrote through the write guard

vars ==
  <<autoposter, interval, min_interval, clock, cache, cacheOwner, stats,
    statsWriter, statsReaders, last_post, lastOwner, pc, ev, now,
    before, tried, posts, failures, extWrote>>

\* ------------------------------------------------------------ pure parts

\* core::time::Duration::as_secs: whole seconds, the fraction dropped.
as_secs(d) == d \div 1000

\* Mutant of IntervalOk: the floor itself is refused (> for >=).
IntervalOk_strict(i) == as_secs(i) > MinIntervalSecs

\* mod.rs:125-128  the assertion of Autoposter::new
IntervalOk(i) == as_secs(i) >= MinIntervalSecs

\* Instant::duration_since: saturates to zero when `earlier` is later.
duration_since(later, earlier) == IF later >= earlier THEN later - earlier ELSE 0

\* twilight_impl.rs:39  last.map_or(true, |l| now.duration_since(l) >= self.min_interval)
GateOpen(last, n, min) ==
  IF last = None THEN TRUE ELSE duration_since(n, last[1]) >= min

\* mod.rs:84  Stats::from(0)
StatsFrom(n) == [server_count |-> Some(n), shard_count |-> None]

\* Mutant of set_server_count: the other field is written.
set_server_count_as_shard(s, n) == [s EXCEPT !.shard_count = Some(n)]

\* mod.rs:52-54
set_server_count(s, n) == [s EXCEPT !.server_count = Some(n)]

\* mod.rs:58-60
set_shard_count(s, n) == [s EXCEPT !.shard_count = Some(n)]

\* mod.rs:45-48
replace(s, other) == other

\* tokio::sync::Mutex::lock: suspends until nobody holds the mutex.
MutexFree(owner) == owner = None

\* tokio::sync::RwLock::write: suspends until no reader and no writer.
CanWrite == statsWriter = None /\ statsReaders = {}

\* tokio::sync::RwLock::read: suspends while a writer holds the lock.
CanRead == statsWriter = None

\* ------------------------------------------------------------------ Init

Init ==
  /\ autoposter = "none"
  /\ interval = 0
  /\ min_interval = 0
  /\ clock = 0
  /\ cache = {}
  /\ cacheOwner = None
  /\ stats = StatsFrom(0)
  /\ statsWriter = None
  /\ statsReaders = {}
  /\ last_post = None
  /\ lastOwner = None
  /\ pc = [t \in Tasks |-> "idle"]
  /\ ev = [t \in Tasks |-> NoEvent]
  /\ now = [t \in Tasks |-> 0]
  /\ before = [t \in Tasks |-> {}]
  /\ tried = [t \in Tasks |-> FALSE]
  /\ posts = 0
  /\ failures = 0
  /\ extWrote = FALSE

\* --------------------------------------------------------------- actions

\* mod.rs:182-188 Autoposter::twilight -> Twilight::new (twilight_impl.rs:25-33)
\* -> Autoposter::new (mod.rs:124-133): panics unless the assertion holds.
Autoposter_twilight(i) ==
  /\ autoposter = "none"
  /\ interval' = i
  /\ min_interval' = i
  /\ autoposter' = IF IntervalOk(i) THEN "ok" ELSE "panic"
  /\ UNCHANGED <<clock, cache, cacheOwner, stats, statsWriter, statsReaders,
                 last_post, lastOwner, pc, ev, now, before, tried,
                 posts, failures, extWrote>>

\* Time passes.
Advance(c) ==
  /\ autoposter = "ok"
  /\ c > clock
  /\ clock' = c
  /\ UNCHANGED <<autoposter, interval, min_interval, cache, cacheOwner, stats,
                 statsWriter, statsReaders, last_post, lastOwner, pc, ev, now,
                 before, tried, posts, failures, extWrote>>

\* Mutant of handle: the default arm takes the cache lock like the other arms.
handle_locks_always(t, e) ==
  /\ autoposter = "ok"
  /\ pc[t] = "idle"
  /\ \A u \in Tasks : u < t => pc[u] # "idle"
  /\ ev' = [ev EXCEPT ![t] = e]
  /\ pc' = [pc EXCEPT ![t] = "lock_cache"]
  /\ UNCHANGED <<autoposter, interval, min_interval, clock, cache, cacheOwner,
                 stats, statsWriter, statsReaders, last_post, lastOwner, now,
                 before, tried, posts, failures, extWrote>>

\* twilight_impl.rs:50-51,87  a task calls handle(event); any event that is not
\* Ready, GuildCreate or GuildDelete returns at once.  The calls are numbered in
\* the order they are made.
handle(t, e) ==
  /\ autoposter = "ok"
  /\ pc[t] = "idle"
  /\ \A u \in Tasks : u < t => pc[u] # "idle"
  /\ ev' = [ev EXCEPT ![t] = e]
  /\ pc' = [pc EXCEPT ![t] = IF e.kind = "other" THEN "done" ELSE "lock_cache"]
  /\ UNCHANGED <<autoposter, interval, min_interval, clock, cache, cacheOwner,
                 stats, statsWriter, statsReaders, last_post, lastOwner, now,
                 before, tried, posts, failures, extWrote>>

\* twilight_impl.rs:53  Ready: cache.lock().await
Ready_lock(t) ==
  /\ pc[t] = "lock_cache"
  /\ ev[t].kind = "ready"
  /\ MutexFree(cacheOwner)
  /\ cacheOwner' = Some(t)
  /\ before' = [before EXCEPT ![t] = cache]
  /\ pc' = [pc EXCEPT ![t] = "write_stats"]
  /\ UNCHANGED <<autoposter, interval, min_interval, clock, cache, stats,
                 statsWriter, statsReaders, last_post, lastOwner, ev, now,
                 tried, posts, failures, extWrote>>

\* Mutant of Ready_write: the count is written before the cache is replaced
\* (lines 58 and 57 swapped).
Ready_write_count_first(t) ==
  /\ pc[t] = "write_stats"
  /\ ev[t].kind = "ready"
  /\ CanWrite
  /\ statsWriter' = Some(t)
  /\ stats' = set_server_count(stats, Cardinality(cache))
  /\ cache' = ev[t].guilds
  /\ pc' = [pc EXCEPT ![t] = "try_post"]
  /\ UNCHANGED <<autoposter, interval, min_interval, clock, cacheOwner,
                 statsReaders, last_post, lastOwner, ev, now, before,
                 tried, posts, failures, extWrote>>

\* Mutant of Ready_write: the collected set is dropped, the cache keeps its
\* contents.
Ready_write_keeps_cache(t) ==
  /\ pc[t] = "write_stats"
  /\ ev[t].kind = "ready"
  /\ CanWrite
  /\ statsWriter' = Some(t)
  /\ stats' = set_server_count(stats, Cardinality(ev[t].guilds))
  /\ pc' = [pc EXCEPT ![t] = "try_post"]
  /\ UNCHANGED <<autoposter, interval, min_interval, clock, cache, cacheOwner,
                 statsReaders, last_post, lastOwner, ev, now, before,
                 tried, posts, failures, extWrote>>

\* Mutant of Ready_write: try_post is called only when the count changed.
Ready_write_if_changed(t) ==
  /\ pc[t] = "write_stats"
  /\ ev[t].kind = "ready"
  /\ CanWrite
  /\ cache' = ev[t].guilds
  /\ stats' = set_server_count(stats, Cardinality(ev[t].guilds))
  /\ IF Cardinality(ev[t].guilds) # Cardinality(cache)
       THEN /\ statsWriter' = Some(t)
            /\ pc' = [pc EXCEPT ![t] = "try_post"]
            /\ UNCHANGED cacheOwner
       ELSE /\ statsWriter' = None
            /\ cacheOwner' = None
            /\ pc' = [pc EXCEPT ![t] = "done"]
  /\ UNCHANGED <<autoposter, interval, min_interval, clock, statsReaders,
                 last_post, lastOwner, ev, now, before, tried, posts, failures,
                 extWrote>>

\* twilight_impl.rs:54-60  Ready: stats.write().await, the cache replaced by the
\* guild ids, the count written, try_post called.
Ready_write(t) ==
  /\ pc[t] = "write_stats"
  /\ ev[t].kind = "ready"
  /\ CanWrite
  /\ statsWriter' = Some(t)
  /\ cache' = ev[t].guilds
  /\ stats' = set_server_count(stats, Cardinality(ev[t].guilds))
  /\ pc' = [pc EXCEPT ![t] = "try_post"]
  /\ UNCHANGED <<autoposter, interval, min_interval, clock, cacheOwner,
                 statsReaders, last_post, lastOwner, ev, now, before,
                 tried, posts, failures, extWrote>>

\* twilight_impl.rs:63-66,72-73  GuildCreate: cache.lock().await, cache.insert(id);
\* an id already known ends the call (the cache guard is dropped).
GuildCreate_lock(t) ==
  /\ pc[t] = "lock_cache"
  /\ ev[t].kind = "add"
  /\ MutexFree(cacheOwner)
  /\ before' = [before EXCEPT ![t] = cache]
  /\ IF ev[t].id \notin cache
       THEN /\ cache' = cache \cup {ev[t].id}
            /\ cacheOwner' = Some(t)
            /\ pc' = [pc EXCEPT ![t] = "write_stats"]
       ELSE /\ UNCHANGED <<cache, cacheOwner>>
            /\ pc' = [pc EXCEPT ![t] = "done"]
  /\ UNCHANGED <<autoposter, interval, min_interval, clock, stats, statsWriter,
                 statsReaders, last_post, lastOwner, ev, now, tried,
                 posts, failures, extWrote>>

\* Mutant of GuildDelete_lock: the early return keeps the cache lock.
GuildDelete_lock_leaks(t) ==
  /\ pc[t] = "lock_cache"
  /\ ev[t].kind = "remove"
  /\ MutexFree(cacheOwner)
  /\ before' = [before EXCEPT ![t] = cache]
  /\ cacheOwner' = Some(t)
  /\ IF ev[t].id \in cache
       THEN /\ cache' = cache \ {ev[t].id}
            /\ pc' = [pc EXCEPT ![t] = "write_stats"]
       ELSE /\ UNCHANGED cache
            /\ pc' = [pc EXCEPT ![t] = "done"]
  /\ UNCHANGED <<autoposter, interval, min_interval, clock, stats, statsWriter,
                 statsReaders, last_post, lastOwner, ev, now, tried,
                 posts, failures, extWrote>>

\* Mutant of GuildDelete_lock: the result of cache.remove is ignored.
GuildDelete_lock_unchecked(t) ==
  /\ pc[t] = "lock_cache"
  /\ ev[t].kind = "remove"
  /\ MutexFree(cacheOwner)
  /\ before' = [before EXCEPT ![t] = cache]
  /\ cache' = cache \ {ev[t].id}
  /\ cacheOwner' = Some(t)
  /\ pc' = [pc EXCEPT ![t] = "write_stats"]
  /\ UNCHANGED <<autoposter, interval, min_interval, clock, stats, statsWriter,
                 statsReaders, last_post, lastOwner, ev, now, tried, posts,
                 failures, extWrote>>

\* twilight_impl.rs:75-78,84-85  GuildDelete: cache.lock().await, cache.remove(id);
\* an unknown id ends the call.
GuildDelete_lock(t) ==
  /\ pc[t] = "lock_cache"
  /\ ev[t].kind = "remove"
  /\ MutexFree(cacheOwner)
  /\ before' = [before EXCEPT ![t] = cache]
  /\ IF ev[t].id \in cache
       THEN /\ cache' = cache \ {ev[t].id}
            /\ cacheOwner' = Some(t)
            /\ pc' = [pc EXCEPT ![t] = "write_stats"]
       ELSE /\ UNCHANGED <<cache, cacheOwner>>
            /\ pc' = [pc EXCEPT ![t] = "done"]
  /\ UNCHANGED <<autoposter, interval, min_interval, clock, stats, statsWriter,
                 statsReaders, last_post, lastOwner, ev, now, tried,
                 posts, failures, extWrote>>

\* Mutant of Guild_write: the length written is the one taken before the
\* insert or remove.
Guild_write_stale(t) ==
  /\ pc[t] = "write_stats"
  /\ ev[t].kind \in {"add", "remove"}
  /\ CanWrite
  /\ statsWriter' = Some(t)
  /\ stats' = set_server_count(stats, Cardinality(before[t]))
  /\ pc' = [pc EXCEPT ![t] = "try_post"]
  /\ UNCHANGED <<autoposter, interval, min_interval, clock, cache, cacheOwner,
                 statsReaders, last_post, lastOwner, ev, now, before, tried,
                 posts, failures, extWrote>>

\* twilight_impl.rs:67-71 and 79-83  stats.write().await, set_server_count(cache.len()),
\* try_post called.
Guild_write(t) ==
  /\ pc[t] = "write_stats"
  /\ ev[t].kind \in {"add", "remove"}
  /\ CanWrite
  /\ statsWriter' = Some(t)
  /\ stats' = set_server_count(stats, Cardinality(cache))
  /\ pc' = [pc EXCEPT ![t] = "try_post"]
  /\ UNCHANGED <<autoposter, interval, min_interval, clock, cache, cacheOwner,
                 statsReaders, last_post, lastOwner, ev, now, before,
                 tried, posts, failures, extWrote>>

\* twilight_impl.rs:36-37  try_post entered: let now = Instant::now()
try_post_now(t) ==
  /\ pc[t] = "try_post"
  /\ now' = [now EXCEPT ![t] = clock]
  /\ tried' = [tried EXCEPT ![t] = TRUE]
  /\ pc' = [pc EXCEPT ![t] = "lock_last"]
  /\ UNCHANGED <<autoposter, interval, min_interval, clock, cache, cacheOwner,
                 stats, statsWriter, statsReaders, last_post, lastOwner, ev,
                 before, posts, failures, extWrote>>

\* twilight_impl.rs:38-40,45-46  last_post.lock().await and the gate.  Open: the
\* stamp, and on to stats.read().await with `last` still held.  Closed: try_post
\* returns Ok(()), then handle() returns and drops its stats and cache guards.
try_post_gate(t) ==
  /\ pc[t] = "lock_last"
  /\ MutexFree(lastOwner)
  /\ IF GateOpen(last_post, now[t], min_interval)
       THEN /\ last_post' = Some(now[t])
            /\ lastOwner' = Some(t)
            /\ pc' = [pc EXCEPT ![t] = "read_stats"]
            /\ UNCHANGED <<cacheOwner, statsWriter>>
       ELSE /\ UNCHANGED <<last_post, lastOwner>>
            /\ cacheOwner' = None
            /\ statsWriter' = None
            /\ pc' = [pc EXCEPT ![t] = "done"]
  /\ UNCHANGED <<autoposter, interval, min_interval, clock, cache, stats,
                 statsReaders, ev, now, before, tried, posts, failures,
                 extWrote>>

\* twilight_impl.rs:41-42  stats.read().await, then client.post_stats(&*stats) starts.
try_post_read(t) ==
  /\ pc[t] = "read_stats"
  /\ CanRead
  /\ statsReaders' = statsReaders \cup {t}
  /\ posts' = posts + 1
  /\ pc' = [pc EXCEPT ![t] = "posting"]
  /\ UNCHANGED <<autoposter, interval, min_interval, clock, cache, cacheOwner,
                 stats, statsWriter, last_post, lastOwner, ev, now,
                 before, tried, failures, extWrote>>

\* twilight_impl.rs:42-47  post_stats returns (an Err is printed), try_post returns
\* Ok(()) and drops `stats` and `last`; handle() returns and drops its guards.
post_stats_return(t, ok) ==
  /\ pc[t] = "posting"
  /\ failures' = IF ok THEN failures ELSE failures + 1
  /\ statsReaders' = statsReaders \ {t}
  /\ lastOwner' = None
  /\ statsWriter' = None
  /\ cacheOwner' = None
  /\ pc' = [pc EXCEPT ![t] = "done"]
  /\ UNCHANGED <<autoposter, interval, min_interval, clock, cache, stats,
                 last_post, ev, now, before, tried, posts, extWrote>>

\* mod.rs:90-94 with 45-60  a caller outside handle() takes the write guard,
\* feeds new data and drops the guard.
ExternalWrite(s) ==
  /\ autoposter = "ok"
  /\ CanWrite
  /\ s # stats
  /\ stats' = s
  /\ extWrote' = TRUE
  /\ UNCHANGED <<autoposter, interval, min_interval, clock, cache, cacheOwner,
                 statsWriter, statsReaders, last_post, lastOwner, pc, ev, now,
                 before, tried, posts, failures>>

ExternalValues ==
  {set_server_count(stats, n) : n \in ExternalCounts}
    \cup {set_shard_count(stats, n) : n \in ExternalCounts}
    \cup {replace(stats, StatsFrom(n)) : n \in ExternalCounts}

\* The steps of the handle() calls under way.
TaskStep(t) ==
  \/ Ready_lock(t)
  \/ Ready_write(t)
  \/ GuildCreate_lock(t)
  \/ GuildDelete_lock(t)
  \/ Guild_write(t)
  \/ try_post_now(t)
  \/ try_post_gate(t)

Next ==
  \/ \E i \in Intervals : Autoposter_twilight(i)
  \/ \E c \in ClockValues : Advance(c)
  \/ \E t \in Tasks, e \in Events : handle(t, e)
  \/ \E t \in Tasks : Ready_lock(t)
  \/ \E t \in Tasks : Ready_write(t)
  \/ \E t \in Tasks : GuildCreate_lock(t)
  \/ \E t \in Tasks : GuildDelete_lock(t)
  \/ \E t \in Tasks : Guild_write(t)
  \/ \E t \in Tasks : try_post_now(t)
  \/ \E t \in Tasks : try_post_gate(t)
  \/ \E s \in ExternalValues : ExternalWrite(s)

Spec == Init /\ [][Next]_vars

\* ------------------------------------------------------- derived notions

Made(t) == pc[t] # "idle"
Returned(t) == pc[t] = "done"

\* Every step the code of a call can take, the post included.
CallStep(t) ==
  \/ TaskStep(t)
  \/ try_post_read(t)
  \/ \E ok \in BOOLEAN : post_stats_return(t, ok)

\* No call under way can take a step: what the calls made so far come to.
Quiescent == \A t \in Tasks : ~ENABLED CallStep(t)

\* try_post is only called from handle(), which holds its stats write guard
\* across the call (twilight_impl.rs:54-60, 67-71, 79-83), so the read guard of
\* line 41 is never granted: try_post_read and post_stats_return never fire, and
\* Next leaves them out.
PostNeverStarts ==
  \A t \in Tasks :
    /\ ~ENABLED try_post_read(t)
    /\ pc[t] # "posting"
    /\ posts = 0

\* A call that passed the open gate holds all three locks and never returns.
StuckAfterGate ==
  [][\A t \in Tasks : pc[t] = "read_stats" => pc'[t] = "read_stats"]_vars

\* last_post is stamped at most once: the call that stamps it keeps the cache
\* lock and the last_post lock from then on.
StampedOnce ==
  [][last_post # None => last_post' = last_post]_vars

\* A call past the open gate has stamped last_post with its own `now`.
StampedWithNow ==
  \A t \in Tasks : pc[t] \in {"read_stats", "posting"} => last_post = Some(now[t])

\* ---------------------------------------------------------------- claims

\* C3: count/cache agreement.  With no write from outside handle(), whenever
\* no call stands between its insert/remove and its counter write - so after
\* every mutation made by a call is complete, and in particular after every
\* call has returned - server_count is Some(size of the cache).
C3_CountMatchesCache ==
  ~extWrote =>
    ((\A t \in Tasks : ~(pc[t] = "write_stats" /\ ev[t].kind \in {"add", "remove"}))
       => stats.server_count = Some(Cardinality(cache)))

\* C3 witness: an add changed the cache and its counter write is complete.
C3_Witness ==
  \E t \in Tasks :
    /\ ev[t].kind = "add"
    /\ ev[t].id \notin before[t]
    /\ ev[t].id \in cache
    /\ pc[t] \in {"try_post", "lock_last", "read_stats", "done"}
    /\ ~extWrote

IsNoOp(e, c) ==
  \/ e.kind = "add" /\ e.id \in c
  \/ e.kind = "remove" /\ e.id \notin c

\* C4: dedup no-op.  The step in which a call finds its add already in the
\* cache, or its remove absent from it, ends the call and changes neither the
\* cache, the stats, last_post, any lock, nor the try_post and post counts.
C4_DedupNoOp ==
  [][\A t \in Tasks :
       (pc[t] = "lock_cache" /\ pc'[t] # "lock_cache" /\ IsNoOp(ev[t], cache))
         => /\ pc'[t] = "done"
            /\ UNCHANGED <<cache, stats, last_post, cacheOwner, statsWriter,
                           statsReaders, lastOwner, tried, posts>>]_vars

\* C4 witness: a remove of an id that was not in the cache has returned
\* without calling try_post.
C4_Witness ==
  \E t \in Tasks :
    /\ ev[t].kind = "remove"
    /\ pc[t] = "done"
    /\ ev[t].id \notin before[t]
    /\ ~tried[t]

\* C5: the post is made holding none of the three locks: a call that passed
\* the open gate (it is taking the snapshot or posting) holds neither the
\* cache lock, nor a stats write guard, nor the last_post lock, and a call
\* waiting for the cache lock meanwhile can take it.
C5_PostOutsideLocks ==
  \A t \in Tasks :
    pc[t] \in {"read_stats", "posting"} =>
      /\ cacheOwner # Some(t)
      /\ statsWriter # Some(t)
      /\ lastOwner # Some(t)
      /\ \A u \in Tasks : pc[u] = "lock_cache" => ENABLED TaskStep(u)

\* Two events that change the state whatever their order.
BothQualify(e1, e2) ==
  \/ e1.kind = "ready" /\ e2.kind = "ready"
  \/ e1.kind = "add" /\ e2.kind = "add" /\ e1.id # e2.id
  \/ e1.kind = "ready" /\ e2.kind = "add" /\ e2.id \notin e1.guilds
  \/ e1.kind = "add" /\ e2.kind = "ready" /\ e1.id \notin e2.guilds

\* C6: with min_interval = 900 s, two qualifying events at most 1 ms apart
\* (both calls made by instant 1) come to exactly one post call.
C6_BurstPostsOnce ==
  (/\ min_interval = 900000
   /\ clock <= 1
   /\ Quiescent
   /\ \E t1, t2 \in Tasks :
        /\ t1 # t2
        /\ Made(t1) /\ Made(t2)
        /\ BothQualify(ev[t1], ev[t2])
        /\ \A u \in Tasks \ {t1, t2} : ~Made(u))
    => posts = 1

\* C7: construction validation.  The constructor panics exactly when the
\* interval is shorter than 900 s, and a constructed handler has
\* min_interval = interval >= 900 s.
C7_ConstructionValidated ==
  /\ autoposter = "panic" => interval < 900 * 1000
  /\ autoposter = "ok" =>
       interval >= 900 * 1000 /\ min_interval = interval /\ min_interval >= 900 * 1000

\* C7 witness: an interval of exactly 900 s was accepted.
C7_Witness == autoposter = "ok" /\ interval = 900 * 1000

\* C8: a Ready call never gets past its counter write without calling
\* try_post, whatever the cache held before.
C8_ReadyAlwaysTries ==
  \A t \in Tasks :
    (ev[t].kind = "ready" /\ pc[t] \in {"lock_last", "read_stats", "posting", "done"})
      => tried[t]

\* C8 witness: a Ready carrying exactly the set the cache already held (so
\* neither the set nor its size changed) has called try_post.
C8_Witness ==
  \E t \in Tasks :
    /\ ev[t].kind = "ready"
    /\ ev[t].guilds = before[t]
    /\ pc[t] \in {"lock_last", "read_stats"}
    /\ tried[t]

\* A call has acted on the cache: it took the cache lock and ran its
\* insert, remove or reset (an insert or remove that found nothing to do
\* included).
Acted(t) == pc[t] \notin {"idle", "lock_cache"}

\* C10: no lost update.  When the calls made are an add of a and a remove of
\* another id b, they come to: both calls have acted on the cache, a is in
\* it and b is not, and once both have returned server_count is its size.
C10_NoLostUpdate ==
  (/\ Quiescent
   /\ ~extWrote)
    => \A t1, t2 \in Tasks :
         (/\ Made(t1) /\ Made(t2)
          /\ ev[t1].kind = "add" /\ ev[t2].kind = "remove"
          /\ ev[t1].id # ev[t2].id
          /\ \A u \in Tasks \ {t1, t2} : ~Made(u))
           => /\ Acted(t1) /\ Acted(t2)
              /\ ev[t1].id \in cache
              /\ ev[t2].id \notin cache
              /\ (Returned(t1) /\ Returned(t2))
                   => stats.server_count = Some(Cardinality(cache))

\* C11: an event that is neither Ready, GuildCreate nor GuildDelete is
\* ignored: the step in which its handle() call is made ends the call, whoever
\* holds the locks, and changes neither the cache, the stats, last_post, any
\* lock, nor the try_post and post counts.
C11_OtherIgnored ==
  [][\A t \in Tasks :
       (pc[t] = "idle" /\ pc'[t] # "idle" /\ ev'[t].kind = "other")
         => /\ pc'[t] = "done"
            /\ UNCHANGED <<cache, stats, last_post, cacheOwner, statsWriter,
                           statsReaders, lastOwner, tried, posts>>]_vars

\* C11 witness: a call with such an event has returned without try_post while
\* another call holds the cache lock.
C11_Witness ==
  \E t \in Tasks :
    /\ ev[t].kind = "other"
    /\ pc[t] = "done"
    /\ ~tried[t]
    /\ cacheOwner # None

\* C12: gate stamping order.  A call that found the gate open has stamped
\* last_post with its `now`, and has released the last_post lock once it goes
\* on to take the snapshot and post.
C12_StampThenRelease ==
  \A t \in Tasks :
    pc[t] \in {"read_stats", "posting"} =>
      /\ last_post = Some(now[t])
      /\ lastOwner # Some(t)

\* The cache shows the event of call t.
Reflects(t) ==
  \/ ev[t].kind = "ready" /\ cache = ev[t].guilds
  \/ ev[t].kind = "add" /\ ev[t].id \in cache /\ ev[t].id \notin before[t]
  \/ ev[t].kind = "remove" /\ ev[t].id \notin cache /\ ev[t].id \in before[t]

\* C13: per-event sequencing.  In every call: until the counter is written
\* the gate has not been consulted (no try_post, no last_post lock); an add or
\* remove about to write the counter has already changed the cache; and from
\* try_post on the cache shows the event and server_count is its size.
C13_Sequencing ==
  \A t \in Tasks :
    /\ pc[t] \in {"idle", "lock_cache", "write_stats"} =>
         ~tried[t] /\ lastOwner # Some(t)
    /\ (pc[t] = "write_stats" /\ ev[t].kind \in {"add", "remove"}) => Reflects(t)
    /\ pc[t] \in {"try_post", "lock_last", "read_stats", "posting"} =>
         /\ Reflects(t)
         /\ stats.server_count = Some(Cardinality(cache))
         /\ lastOwner = Some(t) => tried[t]

\* C13 witness: a call that changed the cache has consulted the gate while
\* another call is under way.
C13_Witness ==
  \E t, u \in Tasks :
    /\ t # u
    /\ pc[t] = "read_stats"
    /\ Cardinality(cache) > 0
    /\ Reflects(t)
    /\ tried[t]
    /\ pc[u] = "lock_cache"

\* C14: posted snapshot.  A call that found the gate open obtains its read
\* guard and posts: when no call can take a step, none is left waiting for
\* the read guard.
C14_SnapshotPosted ==
  Quiescent => \A t \in Tasks : pc[t] # "read_stats"

\* C15: scoped release.  A call that has returned holds none of the three
\* locks and no read guard.
C15_ScopedRelease ==
  \A t \in Tasks :
    pc[t] = "done" =>
      /\ cacheOwner # Some(t)
      /\ statsWriter # Some(t)
      /\ lastOwner # Some(t)
      /\ t \notin statsReaders

\* C15 witness: a remove that took the cache lock and found nothing to remove
\* has returned, and the lock is free.
C15_Witness ==
  \E t \in Tasks :
    /\ ev[t].kind = "remove"
    /\ pc[t] = "done"
    /\ cacheOwner = None

\* C16: resync replaces wholesale.  Once a Ready carrying the set S has
\* replaced the cache and written the counter, the cache is exactly S and
\* server_count is Some(|S|).
C16_ResyncReplaces ==
  \A t \in Tasks :
    (ev[t].kind = "ready" /\ pc[t] \in {"try_post", "lock_last", "read_stats", "posting"})
      => /\ cache = ev[t].guilds
         /\ stats.server_count = Some(Cardinality(ev[t].guilds))

\* C16 witness: a Ready carrying a non-empty set has replaced the cache.
C16_Witness ==
  \E t \in Tasks :
    /\ ev[t].kind = "ready"
    /\ ev[t].guilds # {}
    /\ ev[t].guilds # before[t]
    /\ pc[t] = "read_stats"
    /\ cache = ev[t].guilds

\* C17: deadlock freedom.  With the post always returning, every call
\* returns: when no call can take a step (the return of a post included),
\* every call made has returned.
C17_EveryCallReturns ==
  Quiescent => \A t \in Tasks : Made(t) => Returned(t)

\* C19: shard count frame.  No step of a handle() call changes shard_count.
C19_ShardCountFrame ==
  [][pc' # pc => stats'.shard_count = stats.shard_count]_vars

\* C19 witness: a call wrote the counter after an outside caller had set
\* shard_count, which is still set.
C19_Witness ==
  \E t \in Tasks :
    /\ statsWriter = Some(t)
    /\ stats.shard_count # None
    /\ pc[t] \in {"try_post", "lock_last", "read_stats"}

====
